---- MODULE Spec2Model ----
(***************************************************************************)
(* A model of three parts of the dataquality client library:               *)
(*   - utils/spacy_integration.py: convert_spacy_ner_logits_to_valid_logits *)
(*   - core/finish.py: finish()                                            *)
(*   - loggers/model_logger/text_classification.py: validate()             *)
(* Arrays are functions over 0..n-1, as numpy indexes them.                *)
(* The library is taken as enabled: the @check_noop decorator of finish()  *)
(* lets the call through.  Collaborators that talk to the server or the    *)
(* disk may raise; finish() logs each call it makes to them in `calls`.    *)
(***************************************************************************)
EXTENDS Integers, Sequences, FiniteSets, TLC

\* ---------------------------------------------------------------- bounds
MaxLen == 3
MaxCalls == 2

\* the logit values the inputs are drawn from: negative, zero, positive
Logit == {-1, 0, 3, 4, 5}

\* =========================================================================
\* utils/spacy_integration.py
\* =========================================================================
VARIABLES
    logits,                     \* the caller's array object (its contents)
    ndim,                       \* len(logits.shape)
    pred,                       \* the predicted index passed in
    argsorted_sample_logits,    \* the local of the most recent call
    argsort_seen,               \* <<array, order>> pairs np.argsort has produced
    before,                     \* contents of logits when the most recent call began
    ret,                        \* what the most recent call returned: "none" or the object "logits"
    err,                        \* what the most recent call raised
    ncalls                      \* calls made so far

maskvars == <<logits, ndim, pred, argsorted_sample_logits, argsort_seen, before, ret, err, ncalls>>

\* core/finish.py
VARIABLES
    config,          \* dataquality config: current_project_id, current_run_id, task_type
    wait,            \* finish(wait=...)
    upload_model,    \* finish(upload_model=...)
    create_data_embs,\* finish(create_data_embs=...), resolved on entry
    logger_config,   \* the data logger's config: conditions, report_emails,
                     \*   inference_logged, and whether non-inference data was logged
    helper_data,     \* the model logger config's helper_data dict
    res,             \* the response of the job-submission request
    calls,           \* the calls finish has made to its collaborators, in order
    fpc,             \* where finish is
    fret,            \* what finish returned
    ferr,            \* what finish raised
    data_dir,        \* the run id the locally logged data is filed under, "None" if none is
    log_dir,         \* the run id the local log directory is filed under
    server_data,     \* the run id the server holds data of, "None" if of none
    threads          \* the logging threads the thread pool tracks: "running" or "done"

\* what only the reset and the upload touch
storevars == <<data_dir, log_dir, server_data>>

finishvars == <<config, wait, upload_model, create_data_embs, logger_config,
                helper_data, res, calls, fpc, fret, ferr, storevars, threads>>

\* loggers/model_logger/text_classification.py
VARIABLES
    ml,              \* the attributes of the TextClassificationModelLogger
    given,           \* the attributes it was constructed with
    last_epoch,      \* logger_config.last_epoch
    vpc,             \* "constructed", then "returned" or "raised" by validate()
    verr,             \* what validate() raised
    epoch0,          \* logger_config.last_epoch before the first validate()
    ok_epochs,       \* the int epochs of the validate() calls that returned
    epoch_before,    \* logger_config.last_epoch when the most recent call began
    nvalidates       \* validate() calls made so far

validvars == <<ml, given, last_epoch, vpc, verr, epoch0, ok_epochs, epoch_before,
               nvalidates>>

\* TextClassificationModelLogger.__setattr__
VARIABLES
    attrs,           \* the instance's attributes: name -> value
    attrs_before,    \* the attributes when the most recent assignment began
    set_key,         \* the name the most recent assignment was made to
    set_value,       \* the value it assigned
    set_err,         \* what it raised
    nsets            \* assignments made so far

attrvars == <<attrs, attrs_before, set_key, set_value, set_err, nsets>>

\* Token Probability Extractor (spec 4.3), one row
VARIABLES
    tp_logits,       \* the row's logits: position -> (token id -> score)
    tp_labels,       \* the row's true token ids, its length the true length
    tp_side,         \* the tokenizer's padding side
    tp_vocab,        \* the vocabulary size the decoder expects
    token_logprobs,  \* emitted: per token, the log-probability of the true token
    top_logprobs,    \* emitted: per token, its top-K candidates
    tp_pc,           \* "ready", then "done" or "failed"
    tp_err

tokvars == <<tp_logits, tp_labels, tp_side, tp_vocab, token_logprobs,
             top_logprobs, tp_pc, tp_err>>

\* Batched Generation Driver (spec 4.4, 5), one call
VARIABLES
    bg_texts,        \* the input rows
    bg_batch_size,   \* the configured batch size
    bg_workers,      \* the size of the worker pool
    bg_dispatched,   \* batches handed to the generation capability so far
    bg_pending,      \* batches in flight
    bg_out,          \* batch -> its rows, for the batches that completed
    bg_order,        \* the batches in the order they completed
    bg_failure,      \* the first batch whose generation failed, 0 if none
    bg_calls,        \* the row range of every generation call, in call order
    bg_rows,         \* the rows the call returned
    bg_pc,           \* "running", then "returned" or "raised"
    bg_err

genvars == <<bg_texts, bg_batch_size, bg_workers, bg_dispatched, bg_pending,
             bg_out, bg_order, bg_failure, bg_calls, bg_rows, bg_pc, bg_err>>

\* Tagging Scheme Codec (spec 4.5), one sample
VARIABLES
    cd_scheme,       \* the tagging scheme
    cd_tokens,       \* the sample's token count
    cd_spans,        \* the span list given
    cd_tags,         \* the tag sequence made of it
    cd_back,         \* the span list read back from the tags
    cd_pc,           \* "ready", "encoded", then "decoded", or "failed"
    cd_err

codvars == <<cd_scheme, cd_tokens, cd_spans, cd_tags, cd_back, cd_pc, cd_err>>

\* Span Error Classifier (spec 4.6), one sample
VARIABLES
    se_gold_tags,    \* the gold tag sequence
    se_pred_tags,    \* the predicted tag sequence, of the same length
    se_records,      \* the span error records emitted
    se_pc            \* "ready", then "done"

errvars == <<se_gold_tags, se_pred_tags, se_records, se_pc>>

\* loggers/model_logger/text_classification.py, _get_data_dict
VARIABLES
    probs,           \* self.probs: one row of probabilities, in tenths, per sample
    data,            \* the records _get_data_dict returned: prob and pred of each
    dpc              \* "validated", then "returned"

dictvars == <<probs, data, dpc>>

\* utils/spacy_integration.py, convert_spacy_ents_for_doc_to_predictions
VARIABLES
    docs,            \* the docs: the token count and the entity spans of each
    labels,          \* the tag strings, in the order of the model's outputs
    prediction_indices,  \* what the call returned
    spc,             \* "called", then "returned" or "raised"
    serr             \* what the call raised

entsvars == <<docs, labels, prediction_indices, spc, serr>>

\* what the actions of one part leave alone
notMask == <<finishvars, validvars, attrvars, tokvars, genvars, codvars, errvars, dictvars, entsvars>>
notFinish == <<maskvars, validvars, attrvars, tokvars, genvars, codvars, errvars, dictvars, entsvars>>
notValid == <<maskvars, finishvars, attrvars, tokvars, genvars, codvars, errvars, dictvars, entsvars>>
notAttr == <<maskvars, finishvars, validvars, tokvars, genvars, codvars, errvars, dictvars, entsvars>>
notTok == <<maskvars, finishvars, validvars, attrvars, genvars, codvars, errvars, dictvars, entsvars>>
notGen == <<maskvars, finishvars, validvars, attrvars, tokvars, codvars, errvars, dictvars, entsvars>>
notCod == <<maskvars, finishvars, validvars, attrvars, tokvars, genvars, errvars, dictvars, entsvars>>
notErr == <<maskvars, finishvars, validvars, attrvars, tokvars, genvars, codvars, dictvars, entsvars>>
notDict == <<maskvars, finishvars, validvars, attrvars, tokvars, genvars, codvars, errvars, entsvars>>
notEnts == <<maskvars, finishvars, validvars, attrvars, tokvars, genvars, codvars, errvars, dictvars>>

Size(v) == Cardinality(DOMAIN v)

Vectors == UNION {[0..(n - 1) -> Logit] : n \in 0..MaxLen}

\* np.argsort(v): an index array that sorts v ascending.  The default kind
\* ("quicksort") is not stable: the order among equal values is whatever the
\* sort makes of this array, the same every time the same array is sorted.
SortingOrders(v) ==
    {o \in [DOMAIN v -> DOMAIN v] :
        /\ \A i, j \in DOMAIN v : i # j => o[i] # o[j]
        /\ \A i, j \in DOMAIN v : i < j => v[o[i]] <= v[o[j]]}

np_argsort(v, seen) ==
    {o \in SortingOrders(v) : \A m \in seen : m[1] = v => m[2] = o}

\* np.flip(o): the array reversed
np_flip(o) == [i \in DOMAIN o |-> o[Size(o) - 1 - i]]

\* np.where(a == x)[0]: the positions of a holding x
np_where_wraparound(a, x) == {i \in DOMAIN a : a[i] = x \/ a[i] = x + Size(a)}

np_where_eq(a, x) == {i \in DOMAIN a : a[i] = x}

\* the [0] of a position array: its first (smallest) entry
FirstOf(S) == CHOOSE i \in S : \A j \in S : i <= j

\* argsorted[k:] as the set of indices it holds
SliceAfter(argsorted, k) == {argsorted[i] : i \in {j \in DOMAIN argsorted : j > k}}

SliceFrom(argsorted, k) == {argsorted[i] : i \in {j \in DOMAIN argsorted : j >= k}}

valid_logit_indices(argsorted, p) ==
    SliceFrom(argsorted, FirstOf(np_where_eq(argsorted, p)))

\* np.ones(shape, bool) with the valid indices set to False
zero_out_mask(v, valid) == [i \in DOMAIN v |-> i \notin valid]

\* logits[mask] = 0
AssignZero(v, mask) == [i \in DOMAIN v |-> IF mask[i] THEN 0 ELSE v[i]]

\* One call of convert_spacy_ner_logits_to_valid_logits(logits, pred).  A
\* second call is made on the array the first one returned, with the same pred.
convert_spacy_ner_logits_to_valid_logits ==
    /\ ncalls < MaxCalls
    /\ err = "none"
    /\ ncalls' = ncalls + 1
    /\ before' = logits
    /\ UNCHANGED <<pred, ndim>>
    /\ IF ndim # 1
       THEN \* assert len(logits.shape) == 1
            /\ err' = "AssertionError"
            /\ ret' = "none"
            /\ UNCHANGED <<logits, argsorted_sample_logits, argsort_seen>>
       ELSE \E o \in np_argsort(logits, argsort_seen) :
            /\ argsort_seen' = argsort_seen \cup {<<logits, o>>}
            /\ argsorted_sample_logits' = np_flip(o)
            /\ IF np_where_eq(np_flip(o), pred) = {}
               THEN \* np.where(...)[0][0] on an empty array
                    /\ err' = "IndexError"
                    /\ ret' = "none"
                    /\ UNCHANGED logits
               ELSE /\ logits' = AssignZero(logits,
                            zero_out_mask(logits, valid_logit_indices(np_flip(o), pred)))
                    /\ ret' = "logits"
                    /\ err' = "none"
    /\ UNCHANGED notMask

MaskInit ==
    /\ logits \in Vectors
    /\ ndim \in {1, 2}
    /\ pred \in -1..MaxLen
    /\ argsorted_sample_logits = <<>>
    /\ argsort_seen = {}
    /\ before = <<>>
    /\ ret = "none"
    /\ err = "none"
    /\ ncalls = 0

\* ------------------------------------------------------------ mask claims
Vec3(a, b, c) == [i \in 0..2 |-> CASE i = 0 -> a [] i = 1 -> b [] OTHER -> c]

PosIn(a, x) == FirstOf(np_where_eq(a, x))

IsDescendingSortOf(o, v) ==
    /\ DOMAIN o = DOMAIN v
    /\ \A i \in DOMAIN v : \E k \in DOMAIN o : o[k] = i
    /\ \A i, j \in DOMAIN o : i < j => v[o[i]] >= v[o[j]]

\* C1: a call with an in-range pred returns a vector of the same length in
\* which every index placed before pred in the descending-sorted order of the
\* input holds 0, and pred and every index placed after it hold their original
\* value; [5,3,4] with pred 2 gives [0,3,4].
C1_MaskByRank ==
    (ncalls >= 1 /\ ret = "logits") =>
        /\ DOMAIN logits = DOMAIN before
        /\ IsDescendingSortOf(argsorted_sample_logits, before)
        /\ \A i \in DOMAIN before :
              IF PosIn(argsorted_sample_logits, i) < PosIn(argsorted_sample_logits, pred)
              THEN logits[i] = 0
              ELSE logits[i] = before[i]
        /\ (before = Vec3(5, 3, 4) /\ pred = 2 => logits = Vec3(0, 3, 4))

C1_Witness ==
    /\ ncalls = 1 /\ ret = "logits"
    /\ before = Vec3(5, 3, 4) /\ pred = 2
    /\ logits = Vec3(0, 3, 4)

\* C2: masking is idempotent: the second call, made on the result of the first
\* with the same pred, returns that result entry by entry.
C2_Idempotent ==
    (ncalls >= 2 /\ ret = "logits") => logits = before

\* C3: masking has value semantics: after a call returns, the caller's input
\* still holds its original values and the result is a new vector.
C3_ValueSemantics ==
    (ncalls >= 1 /\ ret # "none") => logits = before

\* C4 (as amended): when pred is not a valid index of the 1-D vector the call
\* fails with IndexError, returns no vector and leaves the input unchanged.
C4_OutOfRangeIndexError ==
    (ncalls >= 1 /\ ndim = 1 /\ pred \notin DOMAIN before) =>
        (err = "IndexError" /\ ret = "none" /\ logits = before)

\* C4 as stated: the failure is an InvalidPredictionError.
C4_InvalidPredictionError ==
    (ncalls >= 1 /\ ndim = 1 /\ pred \notin DOMAIN before) =>
        (err = "InvalidPredictionError" /\ ret = "none" /\ logits = before)

C4_Witness ==
    /\ ncalls = 1 /\ ndim = 1
    /\ Size(before) = 2 /\ pred = 2
    /\ err = "IndexError" /\ ret = "none" /\ logits = before

\* C17: a call zeroes exactly the entries whose logit is strictly larger than
\* the predicted entry's: every entry equal to or smaller than logits[pred],
\* an entry at another index that ties with it included, comes back unchanged.
C17_ZeroesStrictlyLarger ==
    (ncalls >= 1 /\ ret = "logits") =>
        \A i \in DOMAIN before :
            IF before[i] > before[pred]
            THEN logits[i] = 0
            ELSE logits[i] = before[i]

\* C18: after a call the prediction is an arg-max of the returned vector: no
\* returned entry is strictly greater than the returned entry at pred,
\* whatever the sign of the logits.
C18_PredIsArgmax ==
    (ncalls >= 1 /\ ret = "logits") =>
        \A i \in DOMAIN logits : logits[i] <= logits[pred]

\* =========================================================================
\* core/finish.py
\* =========================================================================
NoConditions == <<>>
SomeConditions == <<"condition1", "condition2">>
HelperKeys == {"model", "model_parameters", "model_kind"}
\* what an integration stores under each key of helper_data
Stored(k) ==
    CASE k = "model" -> "the_model"
      [] k = "model_parameters" -> "the_model_parameters"
      [] OTHER -> "the_model_kind"

NewRunId == "run2"
Links == {"https://www.example.com", ""}

\* the asserts of finish: project, run and task type must all be set
ProjectAndRunSet(cfg) ==
    cfg.current_project_id # "None" /\ cfg.current_run_id # "None"

ActiveRun(cfg) ==
    /\ cfg.current_project_id # "None"
    /\ cfg.current_run_id # "None"
    /\ cfg.task_type # "None"

Call(op, args, ok) == [op |-> op, args |-> args, ok |-> ok]

\* what follows the job submission: the optional model upload
AlwaysUploadModel(flag) == "upload_model"

AfterJobSubmitted(flag) == IF flag THEN "upload_model" ELSE "wait_or_report"

\* the if / elif after the model upload: does finish wait for the run
WaitsOnlyForReport(conditions, w) == conditions # NoConditions

WaitsAlways(conditions, w) == TRUE

WaitsForRun(conditions, w) ==
    IF conditions # NoConditions THEN TRUE ELSE w

\* where the wait_or_report step goes first
ReportWithoutWaiting(conditions, w) ==
    IF conditions # NoConditions THEN "build_run_report"
    ELSE IF w THEN "wait_for_run" ELSE "cleanup"

WaitOrReport(conditions, w) ==
    IF WaitsForRun(conditions, w) THEN "wait_for_run" ELSE "cleanup"

\* after wait_for_run returned: the report is built in the conditions branch only
ReturnsAfterWait(conditions) ==
    IF conditions # NoConditions THEN "build_run_report" ELSE "returned"

AfterWait(conditions) ==
    IF conditions # NoConditions THEN "build_run_report" ELSE "cleanup"

\* res.get("link") or ""
LinkOrEmpty(r) == IF "link" \in DOMAIN r THEN r["link"] ELSE ""

FinishRaise(e) ==
    /\ fpc' = "raised"
    /\ ferr' = e
    /\ UNCHANGED fret

MaxThreads == 2

\* dq.log_model_outputs(...) before finish(): the logging is handed to a
\* thread of the pool
log_model_outputs ==
    /\ fpc = "start"
    /\ Len(threads) < MaxThreads
    /\ threads' = Append(threads, "running")
    /\ UNCHANGED <<config, wait, upload_model, create_data_embs, logger_config,
                   helper_data, res, calls, fpc, fret, ferr>>
    /\ UNCHANGED storevars
    /\ UNCHANGED notFinish

\* a logging thread gets to its end, at any time
thread_completes ==
    /\ \E t \in DOMAIN threads :
          /\ threads[t] = "running"
          /\ threads' = [threads EXCEPT ![t] = "done"]
    /\ UNCHANGED <<config, wait, upload_model, create_data_embs, logger_config,
                   helper_data, res, calls, fpc, fret, ferr>>
    /\ UNCHANGED storevars
    /\ UNCHANGED notFinish

\* line 55: ThreadPoolManager.wait_for_threads() returns when the threads it
\* tracks are done
ReturnsAtOnce(pool) == TRUE

wait_for_threads(pool) == \A t \in DOMAIN pool : pool[t] = "done"

\* lines 52-58: analytics, default of create_data_embs, waiting for the
\* logging threads, the three asserts
finish_enter ==
    /\ fpc = "start"
    /\ wait_for_threads(threads)
    /\ \E gpu_available \in BOOLEAN :
          create_data_embs' = IF create_data_embs = "None"
                              THEN (IF gpu_available THEN "True" ELSE "False")
                              ELSE create_data_embs
    /\ calls' = calls \o <<Call("log_function", <<"dq/finish">>, TRUE),
                            Call("wait_for_threads", <<>>, TRUE)>>
    /\ IF ActiveRun(config)
       THEN fpc' = "validate_labels" /\ UNCHANGED <<fret, ferr>>
       ELSE FinishRaise("AssertionError")
    /\ UNCHANGED <<config, wait, upload_model, logger_config, helper_data, res>>
    /\ UNCHANGED storevars
    /\ UNCHANGED threads
    /\ UNCHANGED notFinish

\* line 62: the run is reset when non-inference data was logged
ResetsWhenAnythingLogged(lc) ==
    IF lc.non_inference_logged \/ lc.inference_logged
    THEN "reset_run" ELSE "logger_config_finish"

AfterValidateLabels(lc) ==
    IF lc.non_inference_logged THEN "reset_run" ELSE "logger_config_finish"

\* lines 66-86: the straight-line part of finish
LogFileBeforeData(step) ==
    CASE step = "logger_config_finish" -> "upload_dq_log_file"
      [] step = "upload_dq_log_file" -> "upload"
      [] step = "upload" -> "make_request"

StepAfter(step) ==
    CASE step = "logger_config_finish" -> "upload"
      [] step = "upload" -> "upload_dq_log_file"
      [] step = "upload_dq_log_file" -> "make_request"

\* lines 59-63: data_logger.validate_labels(), then the test for a reset
validate_labels ==
    /\ fpc = "validate_labels"
    /\ \E ok \in BOOLEAN :
          /\ calls' = Append(calls, Call("validate_labels", <<>>, ok))
          /\ IF ok
             THEN /\ fpc' = AfterValidateLabels(logger_config)
                  /\ UNCHANGED <<fret, ferr>>
             ELSE FinishRaise("Exception")
    /\ UNCHANGED <<config, wait, upload_model, create_data_embs, logger_config,
                   helper_data, res>>
    /\ UNCHANGED storevars
    /\ UNCHANGED threads
    /\ UNCHANGED notFinish

\* os.rename(old, new) of a directory filed under a run id
os_rename(dir, old, new) == IF dir = old THEN new ELSE dir

\* _reset_run (lines 165-187).  api_client.reset_run deletes the run on the
\* server and recreates it, which gives it a new id that becomes
\* config.current_run_id; then the local data directory and the local log
\* directory are renamed from the old id to the new one (os.rename raises
\* when the directory is not there), then the config file is written.
reset_run ==
    /\ fpc = "reset_run"
    /\ LET old_run_id == config.current_run_id
           failed(cfg, dd, ld, sd) ==
                /\ calls' = Append(calls,
                        Call("_reset_run", <<old_run_id, NewRunId>>, FALSE))
                /\ config' = cfg /\ data_dir' = dd /\ log_dir' = ld
                /\ server_data' = sd
                /\ FinishRaise("Exception")
           reset == [config EXCEPT !.current_run_id = NewRunId]
       IN \/ \* api_client.reset_run raises
             failed(config, data_dir, log_dir, server_data)
          \/ \* the first os.rename raises
             /\ data_dir # old_run_id
             /\ failed(reset, data_dir, log_dir, "None")
          \/ \* the second os.rename raises
             /\ data_dir = old_run_id
             /\ log_dir # old_run_id
             /\ failed(reset, os_rename(data_dir, old_run_id, NewRunId), log_dir, "None")
          \/ /\ data_dir = old_run_id
             /\ log_dir = old_run_id
             /\ \E ok \in BOOLEAN :   \* config.update_file_config()
                  /\ calls' = Append(calls,
                        Call("_reset_run", <<old_run_id, NewRunId>>, ok))
                  /\ IF ok THEN fpc' = "logger_config_finish" /\ UNCHANGED <<fret, ferr>>
                     ELSE FinishRaise("Exception")
             /\ config' = reset
             /\ data_dir' = os_rename(data_dir, old_run_id, NewRunId)
             /\ log_dir' = os_rename(log_dir, old_run_id, NewRunId)
             /\ server_data' = "None"
    /\ UNCHANGED <<wait, upload_model, create_data_embs, logger_config,
                   helper_data, res>>
    /\ UNCHANGED threads
    /\ UNCHANGED notFinish

\* line 66: data_logger.logger_config.finish()
logger_config_finish ==
    /\ fpc = "logger_config_finish"
    /\ \E ok \in BOOLEAN :
          /\ calls' = Append(calls, Call("logger_config.finish", <<>>, ok))
          /\ IF ok
             THEN fpc' = StepAfter("logger_config_finish") /\ UNCHANGED <<fret, ferr>>
             ELSE FinishRaise("Exception")
    /\ UNCHANGED <<config, wait, upload_model, create_data_embs, logger_config,
                   helper_data, res>>
    /\ UNCHANGED storevars
    /\ UNCHANGED threads
    /\ UNCHANGED notFinish

\* lines 68-70: data_logger.upload(...), which files the data on the server
\* under the current run id
upload ==
    /\ fpc = "upload"
    /\ \E ok \in BOOLEAN :
          /\ calls' = Append(calls, Call("upload", <<create_data_embs>>, ok))
          /\ IF ok
             THEN /\ fpc' = StepAfter("upload")
                  /\ server_data' = config.current_run_id
                  /\ UNCHANGED <<fret, ferr>>
             ELSE /\ FinishRaise("Exception")
                  /\ UNCHANGED server_data
    /\ UNCHANGED <<data_dir, log_dir>>
    /\ UNCHANGED <<config, wait, upload_model, create_data_embs, logger_config,
                   helper_data, res>>
    /\ UNCHANGED threads
    /\ UNCHANGED notFinish

\* line 71
upload_dq_log_file ==
    /\ fpc = "upload_dq_log_file"
    /\ \E ok \in BOOLEAN :
          /\ calls' = Append(calls, Call("upload_dq_log_file", <<>>, ok))
          /\ IF ok
             THEN fpc' = StepAfter("upload_dq_log_file") /\ UNCHANGED <<fret, ferr>>
             ELSE FinishRaise("Exception")
    /\ UNCHANGED <<config, wait, upload_model, create_data_embs, logger_config,
                   helper_data, res>>
    /\ UNCHANGED storevars
    /\ UNCHANGED threads
    /\ UNCHANGED notFinish

\* the responses the server may give: job_name and link, or a body without a link
Responses(job) ==
    {[job_name |-> job, link |-> l] : l \in Links} \cup {[job_name |-> job]}

\* lines 72-92: the body, the POST to the jobs route, the print of the response
make_request ==
    /\ fpc = "make_request"
    /\ LET job == IF logger_config.inference_logged THEN "inference" ELSE "default"
       IN \/ \* the request raises
             /\ calls' = Append(calls, Call("make_request", <<job>>, FALSE))
             /\ FinishRaise("Exception")
             /\ UNCHANGED res
          \/ \E r \in Responses(job) :
                /\ calls' = Append(calls, Call("make_request", <<job>>, TRUE))
                /\ res' = r
                /\ IF "link" \in DOMAIN r
                   THEN /\ fpc' = AfterJobSubmitted(upload_model)
                        /\ UNCHANGED <<fret, ferr>>
                   ELSE FinishRaise("KeyError")
    /\ UNCHANGED <<config, wait, upload_model, create_data_embs, logger_config,
                   helper_data>>
    /\ UNCHANGED storevars
    /\ UNCHANGED threads
    /\ UNCHANGED notFinish

\* lines 104-105: except Exception around the whole model upload
PropagatesUploadError(ok) == IF ok THEN "wait_or_report" ELSE "raised"

AfterModelUpload(ok) == "wait_or_report"

\* lines 93-105: the model upload; reading the three entries of the helper
\* data and upload_model_to_dq are all inside the try
upload_model_step ==
    /\ fpc = "upload_model"
    /\ IF helper_data # <<>> /\ "model" \in DOMAIN helper_data
       THEN IF HelperKeys \subseteq DOMAIN helper_data
            THEN \E ok \in BOOLEAN :
                    /\ calls' = Append(calls, Call("upload_model_to_dq",
                          <<helper_data["model"], helper_data["model_parameters"],
                            helper_data["model_kind"]>>, ok))
                    /\ fpc' = AfterModelUpload(ok)
            ELSE \* KeyError on a missing entry
                 /\ UNCHANGED calls
                 /\ fpc' = AfterModelUpload(FALSE)
       ELSE \* "No model to upload."
            /\ UNCHANGED calls
            /\ fpc' = AfterModelUpload(TRUE)
    /\ UNCHANGED <<config, wait, upload_model, create_data_embs, logger_config,
                   helper_data, res, fret, ferr>>
    /\ UNCHANGED storevars
    /\ UNCHANGED threads
    /\ UNCHANGED notFinish

\* lines 106, 119: the if / elif choosing between report, wait and neither
wait_or_report ==
    /\ fpc = "wait_or_report"
    /\ fpc' = WaitOrReport(logger_config.conditions, wait)
    /\ UNCHANGED <<config, wait, upload_model, create_data_embs, logger_config,
                   helper_data, res, calls, fret, ferr>>
    /\ UNCHANGED storevars
    /\ UNCHANGED threads
    /\ UNCHANGED notFinish

\* lines 111, 120
wait_for_run ==
    /\ fpc = "wait_for_run"
    /\ \E ok \in BOOLEAN :
          /\ calls' = Append(calls, Call("wait_for_run", <<>>, ok))
          /\ IF ok
             THEN /\ fpc' = AfterWait(logger_config.conditions)
                  /\ UNCHANGED <<fret, ferr>>
             ELSE FinishRaise("Exception")
    /\ UNCHANGED <<config, wait, upload_model, create_data_embs, logger_config,
                   helper_data, res>>
    /\ UNCHANGED storevars
    /\ UNCHANGED threads
    /\ UNCHANGED notFinish

build_run_report_args(lc, cfg, r) ==
    <<lc.conditions, lc.report_emails, cfg.current_project_id,
      cfg.current_run_id, r["link"]>>

\* lines 112-118
build_run_report ==
    /\ fpc = "build_run_report"
    /\ \E ok \in BOOLEAN :
          /\ calls' = Append(calls, Call("build_run_report",
                        build_run_report_args(logger_config, config, res), ok))
          /\ IF ok
             THEN fpc' = "cleanup" /\ UNCHANGED <<fret, ferr>>
             ELSE FinishRaise("Exception")
    /\ UNCHANGED <<config, wait, upload_model, create_data_embs, logger_config,
                   helper_data, res>>
    /\ UNCHANGED storevars
    /\ UNCHANGED threads
    /\ UNCHANGED notFinish

\* lines 122-128: the data logger cleaned up, then the model logger, then the
\* link returned; neither call sits in a try
cleanup_and_return ==
    /\ fpc = "cleanup"
    /\ \/ /\ calls' = Append(calls, Call("data_logger._cleanup", <<>>, FALSE))
          /\ FinishRaise("Exception")
       \/ /\ calls' = calls \o <<Call("data_logger._cleanup", <<>>, TRUE),
                                  Call("model_logger._cleanup", <<>>, FALSE)>>
          /\ FinishRaise("Exception")
       \/ /\ calls' = calls \o <<Call("data_logger._cleanup", <<>>, TRUE),
                                  Call("model_logger._cleanup", <<>>, TRUE)>>
          /\ fret' = LinkOrEmpty(res)
          /\ fpc' = "returned"
          /\ UNCHANGED ferr
    /\ UNCHANGED <<config, wait, upload_model, create_data_embs, logger_config,
                   helper_data, res>>
    /\ UNCHANGED storevars
    /\ UNCHANGED threads
    /\ UNCHANGED notFinish

FinishInit ==
    /\ config \in [current_project_id : {"None", "project1"},
                   current_run_id : {"None", "run1"},
                   task_type : {"None", "text_classification"}]
    /\ wait \in BOOLEAN
    /\ upload_model \in BOOLEAN
    /\ create_data_embs \in {"None", "True", "False"}
    /\ logger_config \in [conditions : {NoConditions, SomeConditions},
                          report_emails : {<<>>, <<"fake@example.com">>},
                          inference_logged : BOOLEAN,
                          non_inference_logged : BOOLEAN]
    /\ helper_data \in {[k \in K |-> Stored(k)] : K \in SUBSET HelperKeys}
    /\ res = <<>>
    /\ calls = <<>>
    /\ fpc = "start"
    /\ fret = "None"
    /\ ferr = "None"
    /\ data_dir \in {"None", config.current_run_id}
    /\ log_dir \in {"None", config.current_run_id}
    /\ server_data \in {"None", config.current_run_id}
    /\ threads = <<>>

FinishNext ==
    \/ log_model_outputs
    \/ thread_completes
    \/ finish_enter
    \/ validate_labels
    \/ reset_run
    \/ logger_config_finish
    \/ upload
    \/ upload_dq_log_file
    \/ make_request
    \/ upload_model_step
    \/ wait_or_report
    \/ wait_for_run
    \/ build_run_report
    \/ cleanup_and_return

\* ---------------------------------------------------------- finish claims
CallIdx(op) == {i \in DOMAIN calls : calls[i].op = op}

Count(op) == Cardinality(CallIdx(op))

NotInitialised ==
    \/ config.current_project_id = "None"
    \/ config.current_run_id = "None"
    \/ config.task_type = "None"

JobSubmittedBefore(i) ==
    \E j \in 1..(i - 1) : calls[j].op = "make_request" /\ calls[j].ok

\* finish() has submitted the job, printed the response and is past the model upload
PastModelUpload ==
    /\ \E j \in CallIdx("make_request") : calls[j].ok
    /\ "link" \in DOMAIN res
    /\ fpc # "upload_model"

\* ... and past the wait as well
PastWait ==
    PastModelUpload /\ fpc \notin {"wait_or_report", "wait_for_run"}

\* C5: finish() without a current project id, run id or task type raises
\* AssertionError, and performs no label validation, run reset, data upload, job
\* submission, wait or logger cleanup.
C5_NoInitRaises ==
    (fpc \notin {"idle", "start"} /\ NotInitialised) =>
        /\ fpc = "raised"
        /\ ferr = "AssertionError"
        /\ \A i \in DOMAIN calls :
              calls[i].op \notin {"validate_labels", "_reset_run", "upload",
                                  "make_request", "wait_for_run",
                                  "data_logger._cleanup", "model_logger._cleanup"}

C5_Witness ==
    /\ fpc = "raised" /\ ferr = "AssertionError"
    /\ config.current_project_id = "project1"
    /\ config.current_run_id = "run1"
    /\ config.task_type = "None"

\* C6: a finish() with wait=True that has submitted its job calls wait_for_run
\* exactly once, after the job submission returned and before the cleanup and
\* return, with or without report conditions; when finish() returns, that one
\* call has returned.
C6_WaitsByDefault ==
    /\ Count("wait_for_run") <= 1
    /\ \A i \in CallIdx("wait_for_run") :
          /\ JobSubmittedBefore(i)
          /\ \A k \in CallIdx("data_logger._cleanup") : i < k
    /\ (wait /\ PastWait) => Count("wait_for_run") = 1
    /\ (wait /\ fpc = "returned") =>
          \E i \in CallIdx("wait_for_run") : calls[i].ok

C6_Witness ==
    /\ fpc = "returned" /\ wait
    /\ logger_config.conditions = NoConditions
    /\ Count("wait_for_run") = 1

C8_ReportAfterWait ==
    /\ Count("build_run_report") <= 1
    /\ \A i \in CallIdx("build_run_report") :
          /\ logger_config.conditions # NoConditions
          /\ \E j \in 1..(i - 1) : calls[j].op = "wait_for_run" /\ calls[j].ok
          /\ calls[i].args = <<logger_config.conditions, logger_config.report_emails,
                               config.current_project_id, config.current_run_id,
                               res["link"]>>
    /\ (logger_config.conditions # NoConditions /\ PastWait) =>
          /\ Count("wait_for_run") = 1
          /\ (fpc # "build_run_report" /\ \E j \in CallIdx("wait_for_run") : calls[j].ok)
                => Count("build_run_report") = 1
    /\ (logger_config.conditions # NoConditions /\ fpc = "returned") =>
          Count("build_run_report") = 1

C8_Witness ==
    /\ fpc = "returned"
    /\ logger_config.conditions = SomeConditions
    /\ config.current_run_id = NewRunId
    /\ Count("build_run_report") = 1
    /\ res["link"] # ""

ModelUploadIsSound ==
    /\ Count("upload_model_to_dq") <= 1
    /\ \A i \in CallIdx("upload_model_to_dq") :
          /\ upload_model
          /\ helper_data # <<>> /\ "model" \in DOMAIN helper_data
          /\ calls[i].args = <<helper_data["model"], helper_data["model_parameters"],
                               helper_data["model_kind"]>>
          /\ JobSubmittedBefore(i)

\* C9 (as amended): finish(upload_model=True) with helper data holding 'model',
\* 'model_parameters' and 'model_kind' calls upload_model_to_dq with the three
\* stored values once the job is submitted; with upload_model=False, or
\* helper data that is empty or has no 'model' entry, it is never called.
C9_ModelUploadAllEntries ==
    /\ ModelUploadIsSound
    /\ (PastModelUpload /\ upload_model /\ HelperKeys \subseteq DOMAIN helper_data) =>
          Count("upload_model_to_dq") = 1

\* C9 as stated: a 'model' entry alone is enough for upload_model_to_dq to be called.
C9_ModelUploadWhenModelStored ==
    /\ ModelUploadIsSound
    /\ (PastModelUpload /\ upload_model /\ "model" \in DOMAIN helper_data) =>
          Count("upload_model_to_dq") = 1

C9_Witness ==
    /\ fpc = "returned" /\ upload_model
    /\ DOMAIN helper_data = HelperKeys
    /\ \E i \in CallIdx("upload_model_to_dq") :
          calls[i].args = <<"the_model", "the_model_parameters", "the_model_kind">>

\* the model upload was tried and an exception of it was caught: an entry of
\* the helper data was missing, or upload_model_to_dq raised
ModelUploadFailed ==
    /\ PastModelUpload /\ upload_model
    /\ \/ \E i \in CallIdx("upload_model_to_dq") : ~calls[i].ok
       \/ /\ helper_data # <<>> /\ "model" \in DOMAIN helper_data
          /\ \E k \in HelperKeys : k \notin DOMAIN helper_data

OnlyCleanupsLeft ==
    /\ Count("data_logger._cleanup") = 1 /\ Count("model_logger._cleanup") = 1
    /\ \A i \in CallIdx("data_logger._cleanup") \cup CallIdx("model_logger._cleanup") :
          calls[i].ok

\* C21: an exception of the optional model upload, from reading the helper
\* data or from upload_model_to_dq, never affects finish(): it goes on to the
\* same waiting and report step, cleans up both loggers and returns the
\* job's link as it does with upload_model False; finish() raises after the
\* failed upload only when that later step or a cleanup raises.
C21_ModelUploadFailureIgnored ==
    ModelUploadFailed =>
        /\ (fpc = "raised" =>
              /\ calls[Len(calls)].op \in {"wait_for_run", "build_run_report",
                                           "data_logger._cleanup", "model_logger._cleanup"}
              /\ ~calls[Len(calls)].ok)
        /\ (fpc \in {"cleanup", "returned"} =>
              /\ Count("wait_for_run") =
                    (IF logger_config.conditions # NoConditions \/ wait THEN 1 ELSE 0)
              /\ Count("build_run_report") =
                    (IF logger_config.conditions # NoConditions THEN 1 ELSE 0))
        /\ (fpc = "returned" =>
              /\ OnlyCleanupsLeft
              /\ fret = res["link"]
              /\ ferr = "None")

\* upload_model_to_dq raised, finish() waited, built the report and returned
C21_Witness ==
    /\ fpc = "returned" /\ upload_model
    /\ \E i \in CallIdx("upload_model_to_dq") : ~calls[i].ok
    /\ Count("wait_for_run") = 1 /\ Count("build_run_report") = 1
    /\ Count("model_logger._cleanup") = 1
    /\ fret = "https://www.example.com"

\* the place of a collaborator call among the steps of finish(); 0 for the
\* calls that are none of these steps
StepRank(op) ==
    CASE op = "validate_labels" -> 1
      [] op = "_reset_run" -> 2
      [] op = "logger_config.finish" -> 3
      [] op = "upload" -> 4
      [] op = "upload_dq_log_file" -> 5
      [] op = "make_request" -> 6
      [] op \in {"wait_for_run", "build_run_report"} -> 7
      [] op \in {"data_logger._cleanup", "model_logger._cleanup"} -> 8
      [] OTHER -> 0

SucceededBefore(op, i) ==
    \E j \in 1..(i - 1) : calls[j].op = op /\ calls[j].ok

\* C19: in every execution of finish() the steps come in this order: label
\* validation, the run reset if there is one, the logger-config finish hook,
\* the data upload, the log-file upload, the job submission, any waiting, the
\* logger cleanup; no job is submitted when label validation or the data
\* upload raised, and none before the data upload has completed.
C19_StepOrder ==
    /\ \A i, j \in DOMAIN calls :
          (i < j /\ StepRank(calls[i].op) > 0 /\ StepRank(calls[j].op) > 0) =>
              /\ StepRank(calls[i].op) <= StepRank(calls[j].op)
              /\ (StepRank(calls[i].op) <= 6 =>
                      StepRank(calls[i].op) < StepRank(calls[j].op))
    /\ \A i \in CallIdx("make_request") :
          /\ SucceededBefore("validate_labels", i)
          /\ SucceededBefore("logger_config.finish", i)
          /\ SucceededBefore("upload", i)
          /\ SucceededBefore("upload_dq_log_file", i)
    /\ \A i \in CallIdx("validate_labels") \cup CallIdx("upload") :
          ~calls[i].ok => Count("make_request") = 0
    /\ \A i \in CallIdx("wait_for_run") \cup CallIdx("data_logger._cleanup") :
          SucceededBefore("make_request", i)

\* a finish() that took every step, the reset and the wait included
C19_Witness ==
    /\ fpc = "returned"
    /\ Count("_reset_run") = 1 /\ Count("wait_for_run") = 1
    /\ Count("build_run_report") = 1 /\ Count("data_logger._cleanup") = 1
    /\ \E i \in CallIdx("upload"), j \in CallIdx("make_request") : i < j

\* label validation has passed and finish() is beyond the test for a reset
PastResetDecision ==
    /\ \E i \in CallIdx("validate_labels") : calls[i].ok
    /\ fpc # "reset_run"

\* C20: a finish() that gets as far as the test resets the run if and only
\* if non-inference data was logged; the reset deletes the server's data of
\* the run and renames the local data and log directories from the old run
\* id to the new current one, and is over before the data upload starts; a
\* finish with inference data only never resets the run.
C20_ResetIffNonInference ==
    /\ Count("_reset_run") <= 1
    /\ (PastResetDecision =>
          (Count("_reset_run") = 1 <=> logger_config.non_inference_logged))
    /\ (~logger_config.non_inference_logged =>
          /\ Count("_reset_run") = 0
          /\ config.current_run_id # NewRunId
          /\ data_dir # NewRunId /\ log_dir # NewRunId)
    /\ \A u \in CallIdx("upload") :
          logger_config.non_inference_logged =>
              /\ \E r \in 1..(u - 1) :
                    /\ calls[r] = Call("_reset_run", <<"run1", NewRunId>>, TRUE)
              /\ config.current_run_id = NewRunId
              /\ data_dir = NewRunId /\ log_dir = NewRunId
              /\ server_data # "run1"

C20_Witness ==
    /\ fpc = "returned"
    /\ logger_config.non_inference_logged
    /\ calls[4] = Call("_reset_run", <<"run1", NewRunId>>, TRUE)
    /\ calls[6].op = "upload" /\ calls[6].ok
    /\ data_dir = NewRunId /\ log_dir = NewRunId /\ server_data = NewRunId

CleanedUp(logger) ==
    \E i \in CallIdx(logger) : calls[i].ok

\* what every normal return of finish() has done
CleanupThenLink ==
    fpc = "returned" =>
        /\ OnlyCleanupsLeft
        /\ \A c \in CallIdx("data_logger._cleanup") \cup CallIdx("model_logger._cleanup") :
              /\ SucceededBefore("make_request", c)
              /\ \A i \in CallIdx("wait_for_run") \cup CallIdx("build_run_report") : i < c
        /\ fret = (IF res["link"] = "" THEN "" ELSE res["link"])

\* C22 as stated: a finish() that returns has called _cleanup once on the data
\* logger and once on the model logger, after the job submission and after
\* any wait or report, and returns the response's link, the empty string for
\* an empty link; a finish() that raises has cleaned up neither logger.
C22_CleanupOnlyOnReturn ==
    /\ CleanupThenLink
    /\ (fpc = "raised" =>
          ~CleanedUp("data_logger._cleanup") /\ ~CleanedUp("model_logger._cleanup"))

\* C22 as amended: a finish() that raises has not cleaned up the model
\* logger, and has cleaned up the data logger only when the exception is the
\* model logger's _cleanup's.
C22_CleanupOnReturn ==
    /\ CleanupThenLink
    /\ (fpc = "raised" =>
          /\ ~CleanedUp("model_logger._cleanup")
          /\ (CleanedUp("data_logger._cleanup") =>
                calls[Len(calls)] = Call("model_logger._cleanup", <<>>, FALSE)))

\* a return after the wait and the report
C22_Witness ==
    /\ fpc = "returned"
    /\ Count("build_run_report") = 1
    /\ calls[Len(calls)] = Call("model_logger._cleanup", <<>>, TRUE)
    /\ calls[Len(calls) - 1] = Call("data_logger._cleanup", <<>>, TRUE)
    /\ fret = "https://www.example.com"

MaxRows == 2
MaxEpoch == 2

SplitNames == {"train", "training", "test", "bogus"}

\* Split[name].value: 'train' conforms to 'training'; an unknown name is a KeyError
IsSplit(name) == name \in {"train", "training", "test"}

SplitValue(name) == IF name = "train" THEN "training" ELSE name

\* assert embs_len and probs_len and ids_len
AllSet(embs_len, probs_len, ids_len) ==
    embs_len # 0 /\ probs_len # 0 /\ ids_len # 0

\* assert embs_len == probs_len == ids_len
EmbsAndProbsSameLength(embs_len, probs_len, ids_len) == embs_len = probs_len

SameLength(embs_len, probs_len, ids_len) ==
    embs_len = probs_len /\ probs_len = ids_len

\* lines 100-106: probs are converted from the logits when there are any, and
\* the logits attribute is deleted; else the given probs are kept
PrefersGivenProbs(m) ==
    IF m.logits_len # 0 /\ m.probs_len = 0
    THEN [m EXCEPT !.probs_len = m.logits_len, !.probs_from = "logits",
                   !.has_logits = FALSE]
    ELSE m

HandleLogitsAndProbs(m) ==
    IF m.logits_len # 0
    THEN [m EXCEPT !.probs_len = m.logits_len, !.probs_from = "logits",
                   !.has_logits = FALSE]
    ELSE m

\* if self.epoch: the truthiness of None, of an int and of a float
EpochTruthy(e) == e.kind # "none" /\ e.val # 0

\* lines 144-145: last_epoch moves up to a later epoch only
OverwritesLastEpoch(epoch, last) == epoch

NewLastEpoch(epoch, last) == IF epoch > last THEN epoch ELSE last

validate ==
    /\ vpc = "constructed"
    /\ nvalidates' = nvalidates + 1
    /\ epoch_before' = last_epoch
    /\ UNCHANGED epoch0
    /\ LET m1 == HandleLogitsAndProbs(ml)
           embs_len == m1.embs_len
           probs_len == m1.probs_len
           ids_len == m1.ids_len
           lengths_ok == /\ m1.embs_ndim = 2
                         /\ AllSet(embs_len, probs_len, ids_len)
                         /\ SameLength(embs_len, probs_len, ids_len)
       IN IF ~lengths_ok
          THEN /\ ml' = m1
               /\ vpc' = "raised" /\ verr' = "AssertionError"
               /\ UNCHANGED <<last_epoch, ok_epochs>>
          ELSE IF ~IsSplit(m1.split)
          THEN \* the KeyError is turned into an AssertionError
               /\ ml' = m1
               /\ vpc' = "raised" /\ verr' = "AssertionError"
               /\ UNCHANGED <<last_epoch, ok_epochs>>
          ELSE IF EpochTruthy(m1.epoch) /\ m1.epoch.kind # "int"
          THEN /\ ml' = [m1 EXCEPT !.split = SplitValue(m1.split)]
               /\ vpc' = "raised" /\ verr' = "AssertionError"
               /\ UNCHANGED <<last_epoch, ok_epochs>>
          ELSE /\ ml' = [m1 EXCEPT !.split = SplitValue(m1.split)]
               /\ vpc' = "returned" /\ verr' = "None"
               /\ last_epoch' = IF EpochTruthy(m1.epoch)
                                THEN NewLastEpoch(m1.epoch.val, last_epoch)
                                ELSE last_epoch
               /\ ok_epochs' = IF m1.epoch.kind = "none" THEN ok_epochs
                                ELSE ok_epochs \cup {m1.epoch.val}
    /\ UNCHANGED given
    /\ UNCHANGED notValid

Epochs ==
    {[kind |-> "none", val |-> 0]}
        \cup {[kind |-> "int", val |-> n] : n \in 0..MaxEpoch}
        \cup {[kind |-> "float", val |-> n] : n \in 0..1}

Loggers ==
    [embs_len : 0..MaxRows, embs_ndim : 1..3,
     probs_len : 0..MaxRows, probs_from : {"given"},
     logits_len : 0..MaxRows, has_logits : {TRUE},
     ids_len : 0..MaxRows,
     split : SplitNames, epoch : Epochs]

ValidInit ==
    /\ ml \in Loggers
    /\ given = ml
    /\ last_epoch \in 0..MaxEpoch
    /\ vpc = "constructed"
    /\ verr = "None"
    /\ epoch0 = last_epoch
    /\ ok_epochs = {}
    /\ epoch_before = last_epoch
    /\ nvalidates = 0

\* the loggers of a run of several logging calls: one row or a row too many,
\* a good or a bad embedding shape, a good or a bad split, every kind of epoch
MaxValidates == 3

EpochLoggers ==
    {l \in Loggers :
        /\ l.embs_len = 1 /\ l.ids_len = 1 /\ l.probs_len = 0
        /\ l.logits_len \in {1, 2}
        /\ l.embs_ndim \in {1, 2}
        /\ l.split \in {"train", "bogus"}}

\* __init__ (lines 65-83): the next logging call makes a logger of its own;
\* logger_config, and last_epoch in it, belongs to the class
construct_logger ==
    /\ vpc \in {"returned", "raised"}
    /\ nvalidates < MaxValidates
    /\ ml' \in EpochLoggers
    /\ given' = ml'
    /\ vpc' = "constructed"
    /\ verr' = "None"
    /\ UNCHANGED <<last_epoch, epoch0, ok_epochs, epoch_before, nvalidates>>
    /\ UNCHANGED notValid

EpochsNext ==
    \/ validate
    \/ construct_logger

EpochsInit ==
    /\ ml \in EpochLoggers
    /\ given = ml
    /\ last_epoch \in 0..MaxEpoch
    /\ vpc = "constructed"
    /\ verr = "None"
    /\ epoch0 = last_epoch
    /\ ok_epochs = {}
    /\ epoch_before = last_epoch
    /\ nvalidates = 0

\* -------------------------------------------------------- validate claims
\* the probs validate() measures: the logits when there are any, else the given probs
ProbsLenOf(g) == IF g.logits_len # 0 THEN g.logits_len ELSE g.probs_len

\* C10: validate() succeeds only if embs, probs (given or derived from logits)
\* and ids are all non-empty and of one length; if any of them is empty or the
\* lengths differ it raises AssertionError.
C10_LengthsValidated ==
    LET e == given.embs_len
        pr == ProbsLenOf(given)
        i == given.ids_len
        good == e > 0 /\ pr > 0 /\ i > 0 /\ e = pr /\ e = i /\ pr = i
    IN /\ vpc = "returned" => good
       /\ (vpc \in {"returned", "raised"} /\ ~good) =>
             (vpc = "raised" /\ verr = "AssertionError")

C10_Witness ==
    /\ vpc = "raised" /\ verr = "AssertionError"
    /\ given.embs_ndim = 2
    /\ given.embs_len = 2 /\ given.logits_len = 2 /\ given.ids_len = 1
    /\ IsSplit(given.split)

\* C24: once validate() has handled logits and probs, the probs of a logger
\* given non-empty logits are the conversion of those logits, whatever probs
\* were passed with them, and its logits attribute is gone; the probs passed
\* in are used only when the logits are empty.
C24_ProbsFromLogits ==
    vpc \in {"returned", "raised"} =>
        IF given.logits_len # 0
        THEN /\ ml.probs_from = "logits"
             /\ ml.probs_len = given.logits_len
             /\ ~ml.has_logits
        ELSE /\ ml.probs_from = "given"
             /\ ml.probs_len = given.probs_len
             /\ ml.has_logits

\* logits and probs of different lengths were both passed
C24_Witness ==
    /\ vpc = "returned"
    /\ given.logits_len = 2 /\ given.probs_len = 1
    /\ ml.probs_from = "logits" /\ ml.probs_len = 2 /\ ~ml.has_logits

\* the largest epoch seen: the initial last_epoch and the epochs of the calls
\* that returned
LargestEpoch ==
    CHOOSE e \in {epoch0} \cup ok_epochs : \A o \in {epoch0} \cup ok_epochs : o <= e

\* C25: across any sequence of validate() calls logger_config.last_epoch never
\* decreases and equals the maximum of its initial value and the epochs of the
\* calls that returned; a validate() that raises leaves it unchanged
C25_LastEpochIsRunningMax ==
    /\ last_epoch >= epoch_before
    /\ last_epoch = LargestEpoch
    /\ vpc = "raised" => last_epoch = epoch_before

\* a third call raised after two calls returned, the earlier one with the
\* later epoch
C25_Witness ==
    /\ nvalidates >= 3
    /\ vpc = "raised"
    /\ last_epoch > epoch0
    /\ \E e \in ok_epochs : e > 0 /\ e < last_epoch

\* =========================================================================
\* TextClassificationModelLogger.__setattr__
\* =========================================================================
MaxSets == 2

\* GalileoModelLoggerAttributes.get_valid(): the values of the enum
WithoutInferenceName ==
    {"embs", "probs", "logits", "ids", "split", "epoch"}

get_valid_attributes ==
    {"embs", "probs", "logits", "ids", "split", "epoch", "inference_name"}

\* the names callers try to assign to, and the values they assign
AttrNames ==
    {"embs", "probs", "logits", "ids", "split", "epoch", "inference_name",
     "labels", "emb"}
AttrValues == {"a", "b"}

\* super().__setattr__(key, value)
object_setattr(d, key, value) ==
    [k \in DOMAIN d \cup {key} |-> IF k = key THEN value ELSE d[k]]

setattr ==
    /\ nsets < MaxSets
    /\ nsets' = nsets + 1
    /\ attrs_before' = attrs
    /\ \E key \in AttrNames, value \in AttrValues :
          /\ set_key' = key
          /\ set_value' = value
          /\ IF key \notin get_valid_attributes
             THEN set_err' = "AttributeError" /\ UNCHANGED attrs
             ELSE set_err' = "None" /\ attrs' = object_setattr(attrs, key, value)
    /\ UNCHANGED notAttr

\* the keyword arguments __init__ hands to the base class, each stored as an attribute
CtorAttributes ==
    {"embs", "probs", "logits", "ids", "split", "epoch", "inference_name"}

\* a logger after __init__ (all seven attributes set), or after a validate()
\* that deleted its logits
AttrInit ==
    /\ attrs \in UNION {[D -> AttrValues] :
                          D \in {CtorAttributes, CtorAttributes \ {"logits"}}}
    /\ attrs_before = attrs
    /\ set_key = "None"
    /\ set_value = "None"
    /\ set_err = "None"
    /\ nsets = 0

\* ------------------------------------------------------- __setattr__ claims
\* C11: assigning to a name other than embs, probs, logits, ids, split, epoch,
\* inference_name raises AttributeError and leaves the attributes unchanged;
\* assigning to one of the seven succeeds (and changes that attribute only).
C11_OnlyValidAttributes ==
    nsets >= 1 =>
        IF set_key \in {"embs", "probs", "logits", "ids", "split", "epoch",
                        "inference_name"}
        THEN /\ set_err = "None"
             /\ set_key \in DOMAIN attrs /\ attrs[set_key] = set_value
             /\ DOMAIN attrs = DOMAIN attrs_before \cup {set_key}
             /\ \A k \in DOMAIN attrs_before : k # set_key => attrs[k] = attrs_before[k]
        ELSE /\ set_err = "AttributeError"
             /\ attrs = attrs_before

C11_Witness ==
    /\ nsets = 2
    /\ set_key = "labels" /\ set_err = "AttributeError"
    /\ attrs = attrs_before
    /\ "logits" \in DOMAIN attrs

\* =========================================================================
\* Token Probability Extractor (spec 4.1, 4.3)
\* =========================================================================
MaxSeq == 2
VocabSize == 2
TopK == 1
Scores == {0, 1}

\* a log-probability is kept as what it was computed from: log_softmax of the
\* scores at position pos, read at token tok; log_softmax keeps the order of
\* the scores, which is all top_k needs
LogProb(row, pos, tok) == [pos |-> pos, tok |-> tok, score |-> row[pos][tok]]

\* top_k (spec 4.1): the k largest by value, ties to the lower index, all of
\* them when there are fewer than k
RankIn(v, i) ==
    Cardinality({j \in DOMAIN v : v[j] > v[i] \/ (v[j] = v[i] /\ j < i)})

top_k(v, k) ==
    LET m == IF Size(v) < k THEN Size(v) ELSE k
    IN [r \in 1..m |-> CHOOSE i \in DOMAIN v : RankIn(v, i) = r - 1]

\* the positions holding the row's true tokens, in order: the first n under
\* right padding, the last n under left padding
IgnoresPaddingSide(seq_len, n, side) == [i \in 1..n |-> i - 1]

TruePositions(seq_len, n, side) ==
    [i \in 1..n |-> IF side = "right" THEN i - 1 ELSE seq_len - n + i - 1]

extract_token_probs ==
    /\ tp_pc = "ready"
    /\ LET seq_len == Size(tp_logits)
           n == Len(tp_labels)
           positions == TruePositions(seq_len, n, tp_side)
       IN IF \/ tp_vocab # VocabSize
             \/ \E i \in 1..n : tp_labels[i] \notin 0..(VocabSize - 1)
          THEN /\ tp_pc' = "failed"
               /\ tp_err' = "ShapeMismatchError"
               /\ UNCHANGED <<token_logprobs, top_logprobs>>
          ELSE /\ token_logprobs' =
                    [i \in DOMAIN positions |->
                        LogProb(tp_logits, positions[i], tp_labels[i])]
               /\ top_logprobs' =
                    [i \in DOMAIN positions |->
                        LET cand == top_k(tp_logits[positions[i]], TopK)
                        IN [r \in DOMAIN cand |->
                              LogProb(tp_logits, positions[i], cand[r])]]
               /\ tp_pc' = "done"
               /\ tp_err' = "None"
    /\ UNCHANGED <<tp_logits, tp_labels, tp_side, tp_vocab>>
    /\ UNCHANGED notTok

TokInit ==
    /\ tp_logits \in UNION {[0..(l - 1) -> [0..(VocabSize - 1) -> Scores]] : l \in 1..MaxSeq}
    /\ tp_labels \in UNION {[1..n -> 0..VocabSize] : n \in 0..Size(tp_logits)}
    /\ tp_side \in {"right", "left"}
    /\ tp_vocab \in {VocabSize, VocabSize + 1}
    /\ token_logprobs = <<>>
    /\ top_logprobs = <<>>
    /\ tp_pc = "ready"
    /\ tp_err = "None"

TokIdle ==
    /\ tp_logits = <<>> /\ tp_labels = <<>> /\ tp_side = "right" /\ tp_vocab = VocabSize
    /\ token_logprobs = <<>> /\ top_logprobs = <<>>
    /\ tp_pc = "idle" /\ tp_err = "None"

\* ------------------------------------------------------- extractor claims
\* the positions of the row that hold padding
PaddingPositions ==
    LET seq_len == Size(tp_logits)
        n == Len(tp_labels)
    IN IF tp_side = "right" THEN n..(seq_len - 1) ELSE 0..(seq_len - n - 1)

MaxN == 4
MaxBatchSize == 3
MaxWorkers == 2
Texts == {"s", "t"}

\* the generation capability's result for one input row
generate(row, text) == [row |-> row, of |-> text]

\* contiguous batches of batch_size rows, the last one possibly smaller;
\* rows are numbered from 1
NumBatches(n, batch_size) == (n + batch_size - 1) \div batch_size

BatchFirst(k, batch_size) == (k - 1) * batch_size + 1

BatchLast(k, n, batch_size) ==
    IF k * batch_size < n THEN k * batch_size ELSE n

BatchRange(k, n, batch_size) ==
    <<BatchFirst(k, batch_size), BatchLast(k, n, batch_size)>>

generate_on_batch(k) ==
    LET first == BatchFirst(k, bg_batch_size)
        last == BatchLast(k, Len(bg_texts), bg_batch_size)
    IN [i \in 1..(last - first + 1) |->
            generate(first + i - 1, bg_texts[first + i - 1])]

RECURSIVE ConcatBatches(_, _)
ConcatBatches(out, order) ==
    IF order = <<>> THEN <<>>
    ELSE out[Head(order)] \o ConcatBatches(out, Tail(order))

\* reorder-on-completion: results are put together batch 1, batch 2, ...
AssembleInCompletionOrder(out, order, nb) == ConcatBatches(out, order)

AssembleInInputOrder(out, order, nb) ==
    ConcatBatches(out, [k \in 1..nb |-> k])

\* no partial commit: a failed call hands out no row
KeepsCompletedRows(out, order) ==
    ConcatBatches(out, SelectSeq(order, LAMBDA k : k \in DOMAIN out))

DiscardPartialResults(out, order) == <<>>

NoError == [kind |-> "None", rows |-> <<0, 0>>]

\* the next batch goes to the pool when a worker is free and nothing failed
bg_dispatch ==
    /\ bg_pc = "running"
    /\ bg_failure = 0
    /\ bg_dispatched < NumBatches(Len(bg_texts), bg_batch_size)
    /\ Cardinality(bg_pending) < bg_workers
    /\ bg_dispatched' = bg_dispatched + 1
    /\ bg_pending' = bg_pending \cup {bg_dispatched + 1}
    /\ bg_calls' = Append(bg_calls,
            BatchRange(bg_dispatched + 1, Len(bg_texts), bg_batch_size))
    /\ UNCHANGED <<bg_texts, bg_batch_size, bg_workers, bg_out, bg_order,
                   bg_failure, bg_rows, bg_pc, bg_err>>
    /\ UNCHANGED notGen

\* a dispatched batch runs to completion, in any order
bg_batch_completes ==
    /\ bg_pc = "running"
    /\ \E k \in bg_pending :
        /\ bg_pending' = bg_pending \ {k}
        /\ bg_order' = Append(bg_order, k)
        /\ bg_out' = [b \in DOMAIN bg_out \cup {k} |->
                        IF b = k THEN generate_on_batch(k) ELSE bg_out[b]]
    /\ UNCHANGED <<bg_texts, bg_batch_size, bg_workers, bg_dispatched,
                   bg_failure, bg_calls, bg_rows, bg_pc, bg_err>>
    /\ UNCHANGED notGen

\* ... or to failure
bg_batch_fails ==
    /\ bg_pc = "running"
    /\ \E k \in bg_pending :
        /\ bg_pending' = bg_pending \ {k}
        /\ bg_order' = Append(bg_order, k)
        /\ bg_failure' = IF bg_failure = 0 THEN k ELSE bg_failure
    /\ UNCHANGED <<bg_texts, bg_batch_size, bg_workers, bg_dispatched,
                   bg_out, bg_calls, bg_rows, bg_pc, bg_err>>
    /\ UNCHANGED notGen

bg_return ==
    /\ bg_pc = "running"
    /\ bg_failure = 0
    /\ bg_pending = {}
    /\ bg_dispatched = NumBatches(Len(bg_texts), bg_batch_size)
    /\ bg_rows' = AssembleInInputOrder(bg_out, bg_order, bg_dispatched)
    /\ bg_pc' = "returned"
    /\ UNCHANGED <<bg_texts, bg_batch_size, bg_workers, bg_dispatched,
                   bg_pending, bg_out, bg_order, bg_failure, bg_calls, bg_err>>
    /\ UNCHANGED notGen

bg_raise ==
    /\ bg_pc = "running"
    /\ bg_failure # 0
    /\ bg_pending = {}
    /\ bg_rows' = DiscardPartialResults(bg_out, bg_order)
    /\ bg_err' = [kind |-> "GenerationBatchError",
                  rows |-> BatchRange(bg_failure, Len(bg_texts), bg_batch_size)]
    /\ bg_pc' = "raised"
    /\ UNCHANGED <<bg_texts, bg_batch_size, bg_workers, bg_dispatched,
                   bg_pending, bg_out, bg_order, bg_failure, bg_calls>>
    /\ UNCHANGED notGen

DriverNext ==
    \/ bg_dispatch
    \/ bg_batch_completes
    \/ bg_batch_fails
    \/ bg_return
    \/ bg_raise

GenInit ==
    /\ bg_texts \in UNION {[1..n -> Texts] : n \in 0..MaxN}
    /\ bg_batch_size \in 1..MaxBatchSize
    /\ bg_workers \in 1..MaxWorkers
    /\ bg_dispatched = 0
    /\ bg_pending = {}
    /\ bg_out = <<>>
    /\ bg_order = <<>>
    /\ bg_failure = 0
    /\ bg_calls = <<>>
    /\ bg_rows = <<>>
    /\ bg_pc = "running"
    /\ bg_err = NoError

GenIdle ==
    /\ bg_texts = <<>> /\ bg_batch_size = 1 /\ bg_workers = 1
    /\ bg_dispatched = 0 /\ bg_pending = {} /\ bg_out = <<>>
    /\ bg_order = <<>> /\ bg_failure = 0 /\ bg_calls = <<>>
    /\ bg_rows = <<>> /\ bg_pc = "idle" /\ bg_err = NoError

\* ---------------------------------------------------------- driver claims
CeilDiv(n, b) == IF n % b = 0 THEN n \div b ELSE n \div b + 1

\* C13: over N rows with batch size B the generation capability is called
\* once per contiguous batch, ceil(N/B) calls, each of B rows but possibly
\* the last, and the call returns exactly N rows, row i being the result for
\* input row i, whatever order the dispatched batches completed in.
C13_OrderPreserved ==
    bg_pc = "returned" =>
        LET n == Len(bg_texts) IN
        /\ Len(bg_calls) = CeilDiv(n, bg_batch_size)
        /\ \A c \in DOMAIN bg_calls :
              /\ bg_calls[c][1] = (IF c = 1 THEN 1 ELSE bg_calls[c - 1][2] + 1)
              /\ bg_calls[c][2] - bg_calls[c][1] + 1 =
                    (IF c < Len(bg_calls) THEN bg_batch_size
                     ELSE n - (c - 1) * bg_batch_size)
              /\ bg_calls[c][2] >= bg_calls[c][1]
        /\ (bg_calls # <<>> => bg_calls[Len(bg_calls)][2] = n)
        /\ Len(bg_rows) = n
        /\ \A i \in 1..n : bg_rows[i] = [row |-> i, of |-> bg_texts[i]]

\* two batches that completed in the reverse of their dispatch order
C13_Witness ==
    /\ bg_pc = "returned"
    /\ Len(bg_texts) = 4 /\ bg_batch_size = 3
    /\ bg_order = <<2, 1>>
    /\ Len(bg_rows) = 4
    /\ bg_rows[4].row = 4

\* C16: when generation fails for a batch the whole call fails with
\* GenerationBatchError carrying the row range of a failing batch, and no
\* result row of the batches that succeeded is returned.
C16_NoPartialResults ==
    /\ (bg_pc = "running" => bg_rows = <<>>)
    /\ (bg_failure # 0 /\ bg_pc # "running" =>
          /\ bg_pc = "raised"
          /\ bg_err.kind = "GenerationBatchError"
          /\ \E c \in DOMAIN bg_calls :
                /\ bg_err.rows = bg_calls[c]
                /\ c \notin DOMAIN bg_out
          /\ bg_rows = <<>>)
    /\ (bg_pc = "raised" => bg_failure # 0)

\* batch 1 succeeded before batch 2 failed
C16_Witness ==
    /\ bg_pc = "raised"
    /\ bg_order = <<1, 2>>
    /\ 1 \in DOMAIN bg_out
    /\ bg_failure = 2
    /\ bg_err.rows = <<3, 4>>
    /\ bg_rows = <<>>

\* =========================================================================
\* Tagging Scheme Codec (spec 4.5)
\* =========================================================================
MaxTokens == 4
MaxSpans == 3
Labels == {"PER", "ORG"}
TaggingSchema == {"BIO", "BILOU", "BIOES"}

\* the toy tokenizer of the spec's scenarios: one token per character, token
\* t covering [t, t + 1), so every offset is a token boundary
Span(start, end, label) == [start |-> start, end |-> end, label |-> label]

Outside == [prefix |-> "O", label |-> ""]

Tag(prefix, label) == [prefix |-> prefix, label |-> label]

\* well-formed, non-overlapping span lists over n tokens, in text order
SpanLists(n) ==
    LET spans == {Span(a, b, l) : a \in 0..(n - 1), b \in 1..n, l \in Labels}
        proper == {sp \in spans : sp.start < sp.end}
    IN {sq \in UNION {[1..k -> proper] : k \in 0..MaxSpans} :
            \A i \in 1..(Len(sq) - 1) : sq[i].end <= sq[i + 1].start}

\* the tag of token t inside span sp
TagInSpan(scheme, sp, t) ==
    LET single == sp.end - sp.start = 1
        first == t = sp.start
        last == t = sp.end - 1
    IN CASE scheme = "BIO" ->
              Tag(IF first THEN "B" ELSE "I", sp.label)
         [] scheme = "BILOU" ->
              Tag(IF single THEN "U" ELSE IF first THEN "B"
                  ELSE IF last THEN "L" ELSE "I", sp.label)
         [] scheme = "BIOES" ->
              Tag(IF single THEN "S" ELSE IF first THEN "B"
                  ELSE IF last THEN "E" ELSE "I", sp.label)

\* span -> tags; position t + 1 of the sequence is token t
SpansToTags(scheme, spans, n) ==
    [p \in 1..n |->
        LET t == p - 1
            covering == {i \in DOMAIN spans :
                            spans[i].start <= t /\ t < spans[i].end}
        IN IF covering = {} THEN Outside
           ELSE TagInSpan(scheme, spans[CHOOSE i \in covering : TRUE], t)]

\* tags -> predictions: one span for each contiguous run of non-O tags,
\* whatever tag the run starts with, labelled as the run's first tag
RunStarts(tags) ==
    {p \in DOMAIN tags :
        tags[p] # Outside /\ (p = 1 \/ tags[p - 1] = Outside)}

RunEnd(tags, p) ==
    CHOOSE q \in p..Len(tags) :
        /\ \A r \in p..q : tags[r] # Outside
        /\ (q = Len(tags) \/ tags[q + 1] = Outside)

RECURSIVE SortedSeq(_)
SortedSeq(S) ==
    IF S = {} THEN <<>>
    ELSE LET m == CHOOSE x \in S : \A y \in S : x <= y
         IN <<m>> \o SortedSeq(S \ {m})

TagsToSpans(tags) ==
    LET starts == SortedSeq(RunStarts(tags))
    IN [i \in DOMAIN starts |->
            Span(starts[i] - 1, RunEnd(tags, starts[i]), tags[starts[i]].label)]

spans_to_tags ==
    /\ cd_pc = "ready"
    /\ IF cd_scheme \notin TaggingSchema
       THEN /\ cd_pc' = "failed"
            /\ cd_err' = "UnsupportedSchemeError"
            /\ UNCHANGED cd_tags
       ELSE /\ cd_tags' = SpansToTags(cd_scheme, cd_spans, cd_tokens)
            /\ cd_pc' = "encoded"
            /\ UNCHANGED cd_err
    /\ UNCHANGED <<cd_scheme, cd_tokens, cd_spans, cd_back>>
    /\ UNCHANGED notCod

tags_to_spans ==
    /\ cd_pc = "encoded"
    /\ cd_back' = TagsToSpans(cd_tags)
    /\ cd_pc' = "decoded"
    /\ UNCHANGED <<cd_scheme, cd_tokens, cd_spans, cd_tags, cd_err>>
    /\ UNCHANGED notCod

CodecNext ==
    \/ spans_to_tags
    \/ tags_to_spans

CodInit ==
    /\ cd_scheme \in TaggingSchema \cup {"IOB2"}
    /\ cd_tokens \in 0..MaxTokens
    /\ cd_spans \in SpanLists(cd_tokens)
    /\ cd_tags = <<>>
    /\ cd_back = <<>>
    /\ cd_pc = "ready"
    /\ cd_err = "None"

CodIdle ==
    /\ cd_scheme = "BIO" /\ cd_tokens = 0 /\ cd_spans = <<>> /\ cd_tags = <<>>
    /\ cd_back = <<>> /\ cd_pc = "idle" /\ cd_err = "None"

\* ----------------------------------------------------------- codec claims
\* C15: under each of BIO, BILOU and BIOES, turning a well-formed list of
\* non-overlapping spans into tags and the tags back into spans gives the
\* original span list, also when two spans of one label are directly adjacent.
C15_RoundTrip ==
    cd_pc = "decoded" => cd_back = cd_spans

\* =========================================================================
\* Span Error Classifier (spec 4.6)
\* =========================================================================
MaxTagLen == 3

NERErrorType == {"wrong_tag", "missed_label", "span_shift", "ghost_span", "None"}

Absent == "absent"

Min(a, b) == IF a < b THEN a ELSE b

Max(a, b) == IF a > b THEN a ELSE b

OverlapsOrTouches(a, b) == a.start <= b.end /\ b.start <= a.end

Overlaps(a, b) == a.start < b.end /\ b.start < a.end

CharacterOverlap(a, b) == Min(a.end, b.end) - Max(a.start, b.start)

\* the gold span a predicted span is judged against: the one it overlaps
\* most, the lowest-starting one among equals; 0 when it overlaps none
BestGold(ps, golds) ==
    LET over == {g \in DOMAIN golds : Overlaps(ps, golds[g])}
    IN IF over = {} THEN 0
       ELSE CHOOSE g \in over : \A h \in over \ {g} :
                \/ CharacterOverlap(ps, golds[g]) > CharacterOverlap(ps, golds[h])
                \/ /\ CharacterOverlap(ps, golds[g]) = CharacterOverlap(ps, golds[h])
                   /\ golds[g].start < golds[h].start

SameBounds(a, b) == a.start = b.start /\ a.end = b.end

\* the types the definitions allow for a predicted span; they name none for
\* a span whose gold span differs in both label and bounds, which still gets
\* exactly one type
ErrorTypesFor(ps, golds) ==
    LET g == BestGold(ps, golds)
    IN IF g = 0 THEN {"ghost_span"}
       ELSE IF SameBounds(ps, golds[g])
            THEN IF ps.label = golds[g].label THEN {"None"} ELSE {"wrong_tag"}
            ELSE IF ps.label = golds[g].label THEN {"span_shift"}
                 ELSE NERErrorType \ {"missed_label"}

SpanErrorRecord(start, end, gold, ps, type) ==
    [span_start |-> start, span_end |-> end, gold |-> gold, pred |-> ps,
     error_type |-> type]

PredRecord(ps, golds, type) ==
    LET g == BestGold(ps, golds)
    IN SpanErrorRecord(ps.start, ps.end,
                       IF g = 0 THEN Absent ELSE golds[g].label,
                       ps.label, type)

\* the gold spans no predicted span overlaps, in text order
MissedGolds(golds, preds) ==
    SelectSeq(golds, LAMBDA gs : \A i \in DOMAIN preds : ~Overlaps(preds[i], gs))

classify_spans ==
    /\ se_pc = "ready"
    /\ LET golds == TagsToSpans(se_gold_tags)
           preds == TagsToSpans(se_pred_tags)
           missed == MissedGolds(golds, preds)
       IN \E types \in [DOMAIN preds -> NERErrorType] :
            /\ \A i \in DOMAIN preds : types[i] \in ErrorTypesFor(preds[i], golds)
            /\ se_records' =
                 [i \in DOMAIN preds |-> PredRecord(preds[i], golds, types[i])]
                 \o [i \in DOMAIN missed |->
                        SpanErrorRecord(missed[i].start, missed[i].end,
                                        missed[i].label, Absent, "missed_label")]
    /\ se_pc' = "done"
    /\ UNCHANGED <<se_gold_tags, se_pred_tags>>
    /\ UNCHANGED notErr

TagSequences(n) ==
    [1..n -> {Outside} \cup {Tag(x, l) : x \in {"B", "I"}, l \in Labels}]

\* gold tags are made from labelled spans, so an I- tag continues a span of
\* its label; predicted tags are whatever the model put out
WellFormedTagSequences(n) ==
    {tags \in TagSequences(n) :
        \A t \in 1..n : tags[t].prefix = "I" =>
            t > 1 /\ tags[t - 1] # Outside /\ tags[t - 1].label = tags[t].label}

ErrInit ==
    /\ \E n \in 0..MaxTagLen :
        /\ se_gold_tags \in WellFormedTagSequences(n)
        /\ se_pred_tags \in TagSequences(n)
    /\ se_records = <<>>
    /\ se_pc = "ready"

ErrIdle ==
    /\ se_gold_tags = <<>> /\ se_pred_tags = <<>> /\ se_records = <<>>
    /\ se_pc = "idle"

\* ------------------------------------------------------ classifier claims
\* the maximal runs of non-O tags of a tag sequence, as (start, end, label)
SpansIn(tags) ==
    {Span(a, b, tags[a + 1].label) : a \in 0..(Len(tags) - 1), b \in 1..Len(tags)}
    \cap {sp \in [start : 0..Len(tags), end : 0..Len(tags), label : Labels] :
            /\ sp.start < sp.end
            /\ \A t \in (sp.start + 1)..sp.end : tags[t] # Outside
            /\ (sp.start = 0 \/ tags[sp.start] = Outside)
            /\ (sp.end = Len(tags) \/ tags[sp.end + 1] = Outside)}

SharedChars(a, b) ==
    Cardinality({c \in a.start..(a.end - 1) : b.start <= c /\ c < b.end})

RecordsOf(sp) ==
    {i \in DOMAIN se_records :
        /\ se_records[i].span_start = sp.start
        /\ se_records[i].span_end = sp.end
        /\ se_records[i].pred = sp.label}

\* the gold spans a predicted span is judged against by greatest overlap,
\* lowest start among equals
JudgedAgainst(sp, golds) ==
    {g \in golds :
        /\ SharedChars(sp, g) > 0
        /\ \A h \in golds \ {g} :
              \/ SharedChars(sp, h) < SharedChars(sp, g)
              \/ (SharedChars(sp, h) = SharedChars(sp, g) /\ g.start < h.start)}

MissedRecordsFor(g) ==
    {i \in DOMAIN se_records :
        /\ se_records[i].span_start = g.start
        /\ se_records[i].span_end = g.end
        /\ se_records[i].gold = g.label
        /\ se_records[i].pred = Absent
        /\ se_records[i].error_type = "missed_label"}

EveryMissedGoldRecorded ==
    \A g \in SpansIn(se_gold_tags) :
        (\A sp \in SpansIn(se_pred_tags) : SharedChars(sp, g) = 0)
            => Cardinality(MissedRecordsFor(g)) = 1

\* C14 as stated: every predicted span gets exactly one type of the taxonomy,
\* none iff its bounds and label equal a gold span's, wrong_tag iff its bounds
\* equal a gold span's and the label differs, span_shift iff it overlaps a
\* gold span of its label with other bounds, ghost_span iff it overlaps no
\* gold span; every gold span no predicted span overlaps yields one
\* missed_label record without predicted label.
C14_TypeByDefinition ==
    se_pc = "done" =>
        /\ \A sp \in SpansIn(se_pred_tags) :
            LET golds == SpansIn(se_gold_tags) IN
            /\ Cardinality(RecordsOf(sp)) = 1
            /\ \A i \in RecordsOf(sp) :
                LET type == se_records[i].error_type IN
                /\ type \in NERErrorType
                /\ type = "None" <=>
                      \E g \in golds : SameBounds(sp, g) /\ g.label = sp.label
                /\ type = "wrong_tag" <=>
                      \E g \in golds : SameBounds(sp, g) /\ g.label # sp.label
                /\ type = "span_shift" <=>
                      \E g \in golds : /\ SharedChars(sp, g) > 0
                                       /\ g.label = sp.label
                                       /\ ~SameBounds(sp, g)
                /\ type = "ghost_span" <=>
                      \A g \in golds : SharedChars(sp, g) = 0
        /\ EveryMissedGoldRecorded

\* C14 as amended: the four definitions decide the type of every predicted
\* span but one whose most-overlapped gold span differs from it in both label
\* and bounds; such a span gets exactly one type of the taxonomy all the same.
C14_TypeByDefinitionWhereDefined ==
    se_pc = "done" =>
        /\ \A sp \in SpansIn(se_pred_tags) :
            LET judged == JudgedAgainst(sp, SpansIn(se_gold_tags)) IN
            /\ Cardinality(RecordsOf(sp)) = 1
            /\ \A i \in RecordsOf(sp) :
                LET type == se_records[i].error_type IN
                /\ type \in NERErrorType \ {"missed_label"}
                /\ (\A g \in judged : SameBounds(sp, g) \/ g.label = sp.label) =>
                    /\ type = "None" <=>
                          \E g \in judged : SameBounds(sp, g) /\ g.label = sp.label
                    /\ type = "wrong_tag" <=>
                          \E g \in judged : SameBounds(sp, g) /\ g.label # sp.label
                    /\ type = "span_shift" <=>
                          \E g \in judged : ~SameBounds(sp, g) /\ g.label = sp.label
                    /\ type = "ghost_span" <=> judged = {}
        /\ EveryMissedGoldRecorded

\* a correct span, a shifted one and a missed gold span in one sample
C14_Witness ==
    /\ se_pc = "done"
    /\ se_gold_tags = <<Tag("B", "PER"), Outside, Tag("B", "ORG")>>
    /\ se_pred_tags = <<Tag("B", "PER"), Tag("I", "PER"), Outside>>
    /\ Len(se_records) = 2
    /\ se_records[1].error_type = "span_shift"
    /\ se_records[2].error_type = "missed_label"


\* ---------------------------------------------------------------------------
\* loggers/model_logger/text_classification.py: _get_data_dict
\* ---------------------------------------------------------------------------

MaxClasses == 2
MaxRecords == 2

\* probabilities in tenths: 0.2, 0.5, 0.8
ProbValues == {2, 5, 8}

\* 1 - prob[0], in tenths
OneMinus(p) == 10 - p

ProbRows == UNION {[1..n -> ProbValues] : n \in 1..MaxClasses}

ProbArrays == UNION {[1..n -> ProbRows] : n \in 1..MaxRecords}

\* np.argmax: the first index of the largest value, counted from 0
np_argmax(row) ==
    (CHOOSE i \in DOMAIN row :
        /\ \A j \in DOMAIN row : row[j] <= row[i]
        /\ \A j \in DOMAIN row : j < i => row[j] < row[i]) - 1

\* line 155: a single probability becomes a two-class row
TwoClass(prob) == IF Len(prob) = 1 THEN <<prob[1], OneMinus(prob[1])>> ELSE prob

\* lines 156-164: the prob and pred fields of one record
Record(prob) == [prob |-> TwoClass(prob), pred |-> np_argmax(prob)]

\* lines 151-169
get_data_dict ==
    /\ dpc = "validated"
    /\ data' = [r \in DOMAIN probs |-> Record(probs[r])]
    /\ dpc' = "returned"
    /\ UNCHANGED probs
    /\ UNCHANGED notDict

DictInit ==
    /\ probs \in ProbArrays
    /\ data = <<>>
    /\ dpc = "validated"

DictIdle ==
    /\ probs = <<>>
    /\ data = <<>>
    /\ dpc = "idle"

\* C26: in every record of _get_data_dict, pred is the index of the largest
\* value of that record's prob, the binary case [p] -> [p, 1 - p] included
C26_PredIsArgmaxOfRecordedProb ==
    dpc = "returned" =>
        \A r \in DOMAIN data :
            \A c \in DOMAIN data[r].prob :
                data[r].prob[c] <= data[r].prob[data[r].pred + 1]

\* outside the binary case the recorded row is the row the argmax was taken of
MulticlassPredIsArgmax ==
    dpc = "returned" =>
        \A r \in DOMAIN data :
            Len(probs[r]) > 1 =>
                \A c \in DOMAIN data[r].prob :
                    data[r].prob[c] <= data[r].prob[data[r].pred + 1]


\* ---------------------------------------------------------------------------
\* utils/spacy_integration.py: convert_spacy_ents_for_doc_to_predictions
\* ---------------------------------------------------------------------------

MaxDocs == 2
MaxDocTokens == 3

\* a doc of n one-character tokens separated by one space: token i starts at
\* character 2i
TokenIdx(i) == 2 * i
TokenEnd(i) == TokenIdx(i) + 1

\* a spacy Span over the tokens start..(end - 1)
Ent(start, end, label) == [start |-> start, end |-> end, label |-> label]

start_char(ent) == TokenIdx(ent.start)
end_char(ent) == TokenEnd(ent.end - 1)

\* doc.ents: spans in text order that do not overlap
EntLists(n) ==
    LET spans == {Ent(a, b, "PER") : a \in 0..(n - 1), b \in 1..n}
        proper == {e \in spans : e.start < e.end}
    IN {sq \in UNION {[1..k -> proper] : k \in 0..n} :
            \A i \in 1..(Len(sq) - 1) : sq[i].end <= sq[i + 1].start}

\* the empty doc and the docs of MaxDocTokens tokens
Docs == UNION {[ntokens : {n}, ents : EntLists(n)] : n \in {0, MaxDocTokens}}

DocLists == UNION {[1..k -> Docs] : k \in 0..MaxDocs}

\* label lists: the full tag set, a reordered one with a tag of another label,
\* one without U-PER, one without O, one naming O twice
LabelLists ==
    {<<"O", "B-PER", "I-PER", "L-PER", "U-PER">>,
     <<"U-PER", "L-PER", "B-LOC", "I-PER", "B-PER", "O">>,
     <<"O", "B-PER", "I-PER", "L-PER">>,
     <<"B-PER", "I-PER", "L-PER", "U-PER">>,
     <<"O", "B-PER", "O", "I-PER", "L-PER", "U-PER">>}

\* line 67: the (start_char, end_char, label) triples handed to spacy
Offsets(doc) ==
    [i \in DOMAIN doc.ents |->
        <<start_char(doc.ents[i]), end_char(doc.ents[i]), doc.ents[i].label>>]

\* spacy.training.offsets_to_biluo_tags: an entity whose offsets are token
\* boundaries gives U- to its only token or B-, I-.., L- to its tokens; a
\* token sharing characters with an entity that is not aligned gets "-"; the
\* other tokens get O
offsets_to_bio_tags(doc, entities) ==
    [t \in 1..doc.ntokens |->
        LET i == t - 1
            aligned == {e \in DOMAIN entities :
                          /\ \E a \in 0..(doc.ntokens - 1) : TokenIdx(a) = entities[e][1]
                          /\ \E b \in 0..(doc.ntokens - 1) :
                                TokenEnd(b) = entities[e][2]}
            over == {e \in aligned :
                        entities[e][1] <= TokenIdx(i)
                        /\ TokenEnd(i) <= entities[e][2]}
        IN IF over # {}
           THEN LET e == CHOOSE x \in over : TRUE
                IN IF TokenIdx(i) = entities[e][1]
                   THEN "B-" \o entities[e][3]
                   ELSE "I-" \o entities[e][3]
           ELSE "O"]

offsets_to_biluo_tags(doc, entities) ==
    [t \in 1..doc.ntokens |->
        LET i == t - 1
            aligned == {e \in DOMAIN entities :
                          /\ \E a \in 0..(doc.ntokens - 1) : TokenIdx(a) = entities[e][1]
                          /\ \E b \in 0..(doc.ntokens - 1) :
                                TokenEnd(b) = entities[e][2]}
            over == {e \in aligned :
                        entities[e][1] <= TokenIdx(i)
                        /\ TokenEnd(i) <= entities[e][2]}
            touched == {e \in DOMAIN entities :
                          entities[e][1] < TokenEnd(i)
                          /\ TokenIdx(i) < entities[e][2]}
        IN IF over # {}
           THEN LET e == CHOOSE x \in over : TRUE
                    first == TokenIdx(i) = entities[e][1]
                    last == TokenEnd(i) = entities[e][2]
                IN IF first /\ last THEN "U-" \o entities[e][3]
                   ELSE IF first THEN "B-" \o entities[e][3]
                   ELSE IF last THEN "L-" \o entities[e][3]
                   ELSE "I-" \o entities[e][3]
           ELSE IF touched # {} THEN "-"
           ELSE "O"]

\* list.index: the first position of the value, counted from 0
list_index(list, value) ==
    (CHOOSE p \in DOMAIN list :
        list[p] = value /\ \A q \in DOMAIN list : q < p => list[q] # value) - 1

InList(list, value) == \E p \in DOMAIN list : list[p] = value

\* lines 65-68: the tags of one doc
pred_output(doc) == offsets_to_biluo_tags(doc, Offsets(doc))

\* lines 56-72: labels.index raises ValueError for a tag that is not in labels,
\* and the list built so far is dropped with the frame
convert_spacy_ents_for_doc_to_predictions ==
    /\ spc = "called"
    /\ LET tags == [d \in DOMAIN docs |-> pred_output(docs[d])]
       IN IF \A d \in DOMAIN docs : \A t \in DOMAIN tags[d] : InList(labels, tags[d][t])
          THEN /\ prediction_indices' =
                      [d \in DOMAIN docs |->
                          [t \in DOMAIN tags[d] |-> list_index(labels, tags[d][t])]]
               /\ spc' = "returned"
               /\ UNCHANGED serr
          ELSE /\ UNCHANGED prediction_indices
               /\ spc' = "raised"
               /\ serr' = "ValueError"
    /\ UNCHANGED <<docs, labels>>
    /\ UNCHANGED notEnts

EntsInit ==
    /\ docs \in DocLists
    /\ labels \in LabelLists
    /\ prediction_indices = <<>>
    /\ spc = "called"
    /\ serr = "None"

EntsIdle ==
    /\ docs = <<>>
    /\ labels = <<>>
    /\ prediction_indices = <<>>
    /\ spc = "idle"
    /\ serr = "None"

\* the BILUO tag of token t (counted from 0) of a doc, read off the entities
BiluoTag(doc, t) ==
    LET covering == {e \in DOMAIN doc.ents :
                        doc.ents[e].start <= t /\ t < doc.ents[e].end}
    IN IF covering = {} THEN "O"
       ELSE LET ent == doc.ents[CHOOSE e \in covering : TRUE]
            IN IF ent.end - ent.start = 1 THEN "U-" \o ent.label
               ELSE IF t = ent.start THEN "B-" \o ent.label
               ELSE IF t = ent.end - 1 THEN "L-" \o ent.label
               ELSE "I-" \o ent.label

SomeTagMissing ==
    \E d \in DOMAIN docs :
        \E t \in 0..(docs[d].ntokens - 1) :
            \A p \in DOMAIN labels : labels[p] # BiluoTag(docs[d], t)

\* C27: the call returns one index list per doc, in input order, with one
\* entry per token, entry t being the position in labels of the BILUO tag of
\* token t; when a tag of any token is not in labels the call fails and no
\* partial result comes back
C27_IndicesOfBiluoTags ==
    spc \in {"returned", "raised"} =>
        IF SomeTagMissing
        THEN spc = "raised" /\ prediction_indices = <<>>
        ELSE /\ spc = "returned"
             /\ Len(prediction_indices) = Len(docs)
             /\ \A d \in DOMAIN docs :
                    /\ Len(prediction_indices[d]) = docs[d].ntokens
                    /\ \A t \in 0..(docs[d].ntokens - 1) :
                          LET p == prediction_indices[d][t + 1] + 1
                          IN /\ p \in DOMAIN labels
                             /\ labels[p] = BiluoTag(docs[d], t)
                             /\ \A q \in 1..(p - 1) : labels[q] # BiluoTag(docs[d], t)

\* two different docs converted: one entity of three tokens, then a doc with
\* a single-token entity and an uncovered token, under reordered labels
C27_Witness ==
    /\ spc = "returned"
    /\ Len(docs) = 2
    /\ docs[1].ntokens >= 3
    /\ \E e \in DOMAIN docs[1].ents : docs[1].ents[e].end - docs[1].ents[e].start = 3
    /\ \E e \in DOMAIN docs[2].ents : docs[2].ents[e].end - docs[2].ents[e].start = 1
    /\ \E t \in 0..(docs[2].ntokens - 1) : BiluoTag(docs[2], t) = "O"
    /\ labels[1] = "U-PER"
    /\ prediction_indices[1] # prediction_indices[2]

vars == <<maskvars, finishvars, validvars, attrvars, tokvars, genvars, codvars, errvars, dictvars, entsvars>>

\* the parts at rest: no call of the masking function, of finish(), of validate()
MaskIdle ==
    /\ logits = <<>> /\ ndim = 1 /\ pred = 0
    /\ argsorted_sample_logits = <<>> /\ argsort_seen = {}
    /\ before = <<>> /\ ret = "none" /\ err = "none" /\ ncalls = MaxCalls

FinishIdle ==
    /\ config = [current_project_id |-> "None", current_run_id |-> "None",
                 task_type |-> "None"]
    /\ wait = TRUE /\ upload_model = FALSE /\ create_data_embs = "None"
    /\ logger_config = [conditions |-> NoConditions, report_emails |-> <<>>,
                        inference_logged |-> FALSE, non_inference_logged |-> FALSE]
    /\ helper_data = <<>>
    /\ res = <<>> /\ calls = <<>> /\ fpc = "idle" /\ fret = "None" /\ ferr = "None"
    /\ data_dir = "None" /\ log_dir = "None" /\ server_data = "None"
    /\ threads = <<>>

ValidIdle ==
    /\ ml = [embs_len |-> 0, embs_ndim |-> 1, probs_len |-> 0, probs_from |-> "given",
             logits_len |-> 0, has_logits |-> TRUE, ids_len |-> 0,
             split |-> "train", epoch |-> [kind |-> "none", val |-> 0]]
    /\ given = ml
    /\ last_epoch = 0
    /\ vpc = "idle"
    /\ verr = "None"
    /\ epoch0 = 0
    /\ ok_epochs = {}
    /\ epoch_before = 0
    /\ nvalidates = 0

AttrIdle ==
    /\ attrs = <<>> /\ attrs_before = <<>>
    /\ set_key = "None" /\ set_value = "None" /\ set_err = "None"
    /\ nsets = MaxSets

InitMask == MaskInit /\ FinishIdle /\ ValidIdle /\ AttrIdle /\ TokIdle /\ GenIdle /\ CodIdle /\ ErrIdle /\ DictIdle /\ EntsIdle

InitFinish == MaskIdle /\ FinishInit /\ ValidIdle /\ AttrIdle /\ TokIdle /\ GenIdle /\ CodIdle /\ ErrIdle /\ DictIdle /\ EntsIdle

InitValidate == MaskIdle /\ FinishIdle /\ ValidInit /\ AttrIdle /\ TokIdle /\ GenIdle /\ CodIdle /\ ErrIdle /\ DictIdle /\ EntsIdle
InitEpochs == MaskIdle /\ FinishIdle /\ EpochsInit /\ AttrIdle /\ TokIdle /\ GenIdle /\ CodIdle /\ ErrIdle /\ DictIdle /\ EntsIdle

InitSetattr == MaskIdle /\ FinishIdle /\ ValidIdle /\ AttrInit /\ TokIdle /\ GenIdle /\ CodIdle /\ ErrIdle /\ DictIdle /\ EntsIdle

InitExtract == MaskIdle /\ FinishIdle /\ ValidIdle /\ AttrIdle /\ TokInit /\ GenIdle /\ CodIdle /\ ErrIdle /\ DictIdle /\ EntsIdle

InitDriver == MaskIdle /\ FinishIdle /\ ValidIdle /\ AttrIdle /\ TokIdle /\ GenInit /\ CodIdle /\ ErrIdle /\ DictIdle /\ EntsIdle

InitCodec == MaskIdle /\ FinishIdle /\ ValidIdle /\ AttrIdle /\ TokIdle /\ GenIdle /\ CodInit /\ ErrIdle /\ DictIdle /\ EntsIdle

InitClassify == MaskIdle /\ FinishIdle /\ ValidIdle /\ AttrIdle /\ TokIdle /\ GenIdle /\ CodIdle /\ ErrInit /\ DictIdle /\ EntsIdle

InitDict == MaskIdle /\ FinishIdle /\ ValidIdle /\ AttrIdle /\ TokIdle /\ GenIdle /\ CodIdle /\ ErrIdle /\ DictInit /\ EntsIdle

InitEnts == MaskIdle /\ FinishIdle /\ ValidIdle /\ AttrIdle /\ TokIdle /\ GenIdle /\ CodIdle /\ ErrIdle /\ DictIdle /\ EntsInit

Init == InitMask \/ InitFinish \/ InitValidate \/ InitEpochs \/ InitSetattr \/ InitExtract \/ InitDriver \/ InitCodec \/ InitClassify \/ InitDict \/ InitEnts

Next ==
    \/ convert_spacy_ner_logits_to_valid_logits
    \/ FinishNext
    \/ validate
    \/ construct_logger
    \/ setattr
    \/ extract_token_probs
    \/ DriverNext
    \/ CodecNext
    \/ classify_spans
    \/ get_data_dict
    \/ convert_spacy_ents_for_doc_to_predictions

Spec == Init /\ [][Next]_vars

\* the masking function alone
SpecMask == InitMask /\ [][convert_spacy_ner_logits_to_valid_logits]_vars

\* finish() alone
SpecFinish == InitFinish /\ [][FinishNext]_vars

\* validate() alone
SpecValidate == InitValidate /\ [][validate]_vars
SpecEpochs == InitEpochs /\ [][EpochsNext]_vars

\* attribute assignment alone
SpecSetattr == InitSetattr /\ [][setattr]_vars

\* the Token Probability Extractor alone
SpecExtract == InitExtract /\ [][extract_token_probs]_vars

\* the Batched Generation Driver alone
SpecDriver == InitDriver /\ [][DriverNext]_vars

\* the Tagging Scheme Codec alone
SpecCodec == InitCodec /\ [][CodecNext]_vars

\* the Span Error Classifier alone
SpecClassify == InitClassify /\ [][classify_spans]_vars

\* _get_data_dict on validated probabilities
SpecDict == InitDict /\ [][get_data_dict]_vars

\* convert_spacy_ents_for_doc_to_predictions alone
SpecEnts == InitEnts /\ [][convert_spacy_ents_for_doc_to_predictions]_vars
====
